---- MODULE Spec2Model ----
(***************************************************************************)
(* Brother P-Touch P700 driver (brother_pt700.py): the status decoder, the *)
(* line encoder and the print job controller (P700.print_label,            *)
(* P700._raw_print) running against its background status poller          *)
(* (P700._print_status_check).                                             *)
(*                                                                         *)
(* Bytes are integers 0..255, byte strings are sequences of bytes.  Python *)
(* indexes from 0 and TLA+ from 1, so msg[k] of the source is msg[k + 1].  *)
(***************************************************************************)
EXTENDS Integers, Sequences, FiniteSets, TLC

VARIABLES
    pc,                   \* position of the caller inside print_label / _raw_print
    status,               \* self.status
    _check_print_status,  \* self._check_print_status
    copies,               \* the `copies` argument of print_label
    jobStatus,            \* the `status` argument of _raw_print (<<>> before the call)
    img,                  \* the rendered image: [width, bytes] (img.size[0], img.tobytes())
    documents,            \* the `documents` argument: a list of iterator references
    iters,                \* the iterators create_copies made: bytes each has consumed
    i,                    \* the page loop variable of _raw_print
    elapsed,              \* time.time() - (end - 20), in sleeps of 0.1 s
    exc,                  \* the exception in flight inside / out of print_label
    retval,               \* what print_label returned (<<>> until it returns)
    poller,               \* position of the status_thread
    polled,               \* the `data` local of _print_status_check (<<>> before its read)
    seen,                 \* the Status loaded by the first conjunct of line 280 (<<>> outside)
    data,                 \* the `data` local of get_status (<<>> before its read)
    wire,                 \* every io.write that reached the transport, in order
    advanced,             \* history: one record per page-advance wait left by `break`
    completed,            \* history: one record per completion wait left by `break`
    fresh                 \* history: self.status was assigned since the last next-page marker

vars == <<pc, status, _check_print_status, copies, jobStatus, img, documents, iters, i,
          elapsed, exc, retval, poller, polled, seen, data, wire, advanced,
          completed, fresh>>

-----------------------------------------------------------------------------
(* Bounds of the model *)

MaxCopies == 2
MaxRows == 2
MaxLineBytes == 2

-----------------------------------------------------------------------------
(* Program constants *)

\* status frames are fixed 32-byte reads: self.io.read(32)
FrameLen == 32
\* end = time.time() + 20
Timeout == 20
\* time.sleep(0.1): ten sleeps to the second
SleepsPerSecond == 10
\* line_int.to_bytes(16, byteorder='big')
HeadBytes == 16
\* self.set_margin(14)
Margin == 14
\* the status-type codes the two waits compare against
PHASE_CHANGE_CODE == 6
PRINTING_DONE_CODE == 1

None == 0 - 1

-----------------------------------------------------------------------------
(* Byte helpers *)

Zeros(n) == [k \in 1..n |-> 0]

RECURSIVE Pow2(_)
Pow2(n) == IF n = 0 THEN 1 ELSE 2 * Pow2(n - 1)

\* bool(value & 1 << offset)
BitSet(value, offset) == (value \div Pow2(offset)) % 2 = 1

\* int.to_bytes(n, 'little') for a value below 2^(8n)
to_bytes_little(value, n) == [k \in 1..n |-> (value \div Pow2(8 * (k - 1))) % 256]

\* the bits of a byte string, most significant first
Bits(bytes) == [k \in 1..(8 * Len(bytes)) |->
                  (bytes[((k - 1) \div 8) + 1] \div Pow2(7 - ((k - 1) % 8))) % 2]

\* the bytes of a bit string whose length is a multiple of 8
FromBits(bits) == [k \in 1..(Len(bits) \div 8) |->
                     bits[8*k - 7] * 128 + bits[8*k - 6] * 64 + bits[8*k - 5] * 32
                     + bits[8*k - 4] * 16 + bits[8*k - 3] * 8 + bits[8*k - 2] * 4
                     + bits[8*k - 1] * 2 + bits[8*k]]

-----------------------------------------------------------------------------
(* Lookup tables *)

INFO_OFFSETS ==
    [printhead_mark |-> 0, model_code |-> 4, error_1 |-> 8, error_2 |-> 9,
     media_width |-> 10, media_type |-> 11, mode |-> 15, media_length |-> 17,
     status_type |-> 18, phase_type |-> 19, phase_number_hi |-> 20,
     phase_number_lo |-> 21, notify_no |-> 22, hardware_settings |-> 26]

STATUS_TYPE_MAP ==
    (0 :> "STATUS_REPLY") @@ (1 :> "PRINTING_DONE") @@ (2 :> "ERROR_OCCURRED")
    @@ (4 :> "TURNED_OFF") @@ (5 :> "NOTIFICATION") @@ (6 :> "PHASE_CHANGE")

\* width is kept in tenths (3.5 is 35)
TapeInfo(lmargin, printarea, rmargin, width) ==
    [lmargin |-> lmargin, printarea |-> printarea, rmargin |-> rmargin, width |-> width]

\* the tape table without its 18 mm entry
MEDIA_WIDTH_INFO_No18 ==
    (0 :> TapeInfo(None, None, None, None))
    @@ (4 :> TapeInfo(52, 24, 52, 35))
    @@ (6 :> TapeInfo(48, 32, 48, 60))
    @@ (9 :> TapeInfo(39, 50, 39, 90))
    @@ (12 :> TapeInfo(29, 70, 29, 120))
    @@ (24 :> TapeInfo(0, 128, 0, 240))

MEDIA_WIDTH_INFO ==
    (0 :> TapeInfo(None, None, None, None))
    @@ (4 :> TapeInfo(52, 24, 52, 35))
    @@ (6 :> TapeInfo(48, 32, 48, 60))
    @@ (9 :> TapeInfo(39, 50, 39, 90))
    @@ (12 :> TapeInfo(29, 70, 29, 120))
    @@ (18 :> TapeInfo(8, 112, 8, 180))
    @@ (24 :> TapeInfo(0, 128, 0, 240))

ERROR_MASK ==
    (0 :> "no_media") @@ (2 :> "cutter_jam") @@ (3 :> "weak_battery")
    @@ (6 :> "hv_adapter") @@ (8 :> "replace_media") @@ (12 :> "cover_open")
    @@ (13 :> "overheating")

-----------------------------------------------------------------------------
(* Status decoder *)

\* Errors.__init__ with the second error byte shifted by 4 instead of 8
Errors_ShortShift(byte1, byte2) ==
    LET value == byte1 + 16 * byte2
    IN  [offset \in DOMAIN ERROR_MASK |-> BitSet(value, offset)]

\* Errors.__init__: the flags, keyed here by bit offset
Errors(byte1, byte2) ==
    LET value == byte1 + 256 * byte2
    IN  [offset \in DOMAIN ERROR_MASK |-> BitSet(value, offset)]

\* Errors.any
ErrorsAny(errors) == \E offset \in DOMAIN errors : errors[offset]

\* MEDIA_WIDTH_INFO[self.media_width] raises KeyError for a code not in the table
MediaWidthKnown(code) == code \in DOMAIN MEDIA_WIDTH_INFO

\* Status.__init__ succeeds on msg
Decodable(msg) == MediaWidthKnown(msg[INFO_OFFSETS.media_width + 1])

\* Status.__init__, for a msg it succeeds on
Status(msg) ==
    LET fields == [f \in DOMAIN INFO_OFFSETS |-> msg[INFO_OFFSETS[f] + 1]]
    IN  [data      |-> fields,
         errors    |-> Errors(fields.error_1, fields.error_2),
         tape_info |-> MEDIA_WIDTH_INFO[fields.media_width]]

\* Status.ready
ready(s) == ~ErrorsAny(s.errors)

-----------------------------------------------------------------------------
(* Line encoder *)

\* packbits.encode(src): the loop over src[pos], src[pos + 1]
MAX_LENGTH == 127

finish_raw(buf) == IF Len(buf) = 0 THEN <<>> ELSE <<Len(buf) - 1>> \o buf

finish_rle(repeat_count, byte) == <<256 - (repeat_count - 1), byte>>

RECURSIVE packbits_loop(_, _, _, _, _, _)
packbits_loop(src, pos, state, buf, repeat_count, result) ==
    IF pos >= Len(src)
    THEN IF state = "RAW"
         THEN result \o finish_raw(Append(buf, src[pos]))
         ELSE result \o finish_rle(repeat_count + 1, src[pos])
    ELSE IF src[pos] = src[pos + 1]
    THEN IF state = "RAW"
         THEN packbits_loop(src, pos + 1, "RLE", <<>>, 1, result \o finish_raw(buf))
         ELSE IF repeat_count = MAX_LENGTH
              THEN packbits_loop(src, pos + 1, "RLE", buf, 1,
                                 result \o finish_rle(repeat_count, src[pos]))
              ELSE packbits_loop(src, pos + 1, "RLE", buf, repeat_count + 1, result)
    ELSE IF state = "RLE"
         THEN packbits_loop(src, pos + 1, "RAW", buf, 0,
                            result \o finish_rle(repeat_count + 1, src[pos]))
         ELSE IF Len(buf) = MAX_LENGTH
              THEN packbits_loop(src, pos + 1, "RAW", <<src[pos]>>, repeat_count,
                                 result \o finish_raw(buf))
              ELSE packbits_loop(src, pos + 1, "RAW", Append(buf, src[pos]),
                                 repeat_count, result)

packbits_encode(src) ==
    IF Len(src) = 0 THEN <<>>
    ELSE IF Len(src) = 1 THEN <<0>> \o src
    ELSE packbits_loop(src, 1, "RAW", <<>>, 0, <<>>)

\* line_int <<= tape_info.rmargin, as a bit string (most significant bit first)
Shifted(bitmap_line, tape_info) == Bits(bitmap_line) \o Zeros(tape_info.rmargin)

\* line_int.to_bytes(16, 'big') raises OverflowError unless the value is below 2^128
EncodeFits(bitmap_line, tape_info) ==
    LET sh == Shifted(bitmap_line, tape_info)
    IN  \A k \in 1..Len(sh) : k <= Len(sh) - 8 * HeadBytes => sh[k] = 0

\* padded = line_int.to_bytes(16, byteorder='big')
Padded(bitmap_line, tape_info) ==
    LET sh == Shifted(bitmap_line, tape_info)
        n  == 8 * HeadBytes
    IN  FromBits(IF Len(sh) >= n THEN SubSeq(sh, Len(sh) - n + 1, Len(sh))
                 ELSE Zeros(n - Len(sh)) \o sh)

\* encode_line with the count packed as ">H", as the comment of line 138 has it
encode_line_BigEndianPrefix(bitmap_line, tape_info) ==
    LET compressed == packbits_encode(Padded(bitmap_line, tape_info))
        prefix     == to_bytes_little(Len(compressed), 2)
    IN  <<prefix[2], prefix[1]>> \o compressed

encode_line(bitmap_line, tape_info) ==
    LET compressed == packbits_encode(Padded(bitmap_line, tape_info))
        prefix     == to_bytes_little(Len(compressed), 2)
    IN  prefix \o compressed

-----------------------------------------------------------------------------
(* Commands *)

\* int(digits, 2) for a string of binary digits
RECURSIVE int_base2(_)
int_base2(digits) ==
    IF Len(digits) = 0 THEN 0
    ELSE 2 * int_base2(SubSeq(digits, 1, Len(digits) - 1)) + digits[Len(digits)]

\* build_byte with the digits joined in the order of range(8), not reversed
build_byte_NotReversed(bits) ==
    LET digits == [n \in 1..8 |-> IF (n - 1) \in DOMAIN bits /\ bits[n - 1] THEN 1 ELSE 0]
    IN  <<int_base2(digits)>>

\* bytes([int(''.join([str(int(bits.get(i, 0))) for i in reversed(range(8))]), 2)])
build_byte(bits) ==
    LET digits == [n \in 1..8 |-> IF (8 - n) \in DOMAIN bits /\ bits[8 - n] THEN 1 ELSE 0]
    IN  <<int_base2(digits)>>

connect_zeros == Zeros(100)
connect_init == <<27, 64>>
status_request == <<27, 105, 83>>
set_raster_mode == <<27, 105, 97, 1>>
set_various_mode(cut, mirror) == <<27, 105, 77>> \o build_byte((6 :> cut) @@ (7 :> mirror))
set_advanced_mode(no_chain_printing, special_tape, no_buffer_clearing) ==
    <<27, 105, 75>>
    \o build_byte((3 :> no_chain_printing) @@ (4 :> special_tape) @@ (7 :> no_buffer_clearing))
set_margin(margin) == <<27, 105, 100>> \o to_bytes_little(margin, 2)
set_compression_mode(tiff) == <<77>> \o build_byte(1 :> tiff)
raster_transfer(line, tape_info) == <<71>> \o encode_line(line, tape_info)
print_empty_row == <<90>>
next_page == <<12>>
last_page_end == <<26>>

-----------------------------------------------------------------------------
(* Copies of the document *)

Min(a, b) == IF a < b THEN a ELSE b

\* ceil(img.size[0] / 8)
RowSize(image) == (image.width + 7) \div 8

\* bytes(tuple(islice(i, size))) for an iterator that has consumed pos bytes of b
NextChunk(b, size, pos) == SubSeq(b, pos + 1, Min(pos + size, Len(b)))

\* create_copies with one iterator shared by every copy
create_copies_shared(b, size, n) ==
    [documents |-> [k \in 1..n |-> 1], iters |-> [k \in 1..n |-> 0]]

\* create_copies: one fresh iterator over b for every copy
create_copies(b, size, n) ==
    [documents |-> [k \in 1..n |-> k], iters |-> [k \in 1..n |-> 0]]

-----------------------------------------------------------------------------
(* Inputs: what the transport returns to io.read(32), what label.render returns *)

\* a 32-byte status frame with the given error byte 1, media width code, status
\* type, phase type and low phase-number byte; every other byte is zero
Frame(e1, mw, st, pt, lo) ==
    [k \in 1..FrameLen |->
        CASE k = INFO_OFFSETS.error_1 + 1 -> e1
          [] k = INFO_OFFSETS.media_width + 1 -> mw
          [] k = INFO_OFFSETS.status_type + 1 -> st
          [] k = INFO_OFFSETS.phase_type + 1 -> pt
          [] k = INFO_OFFSETS.phase_number_lo + 1 -> lo
          [] OTHER -> 0]

\* reads that time out with nothing, or with a partial frame
ShortReads == {Zeros(0), Zeros(1), Zeros(FrameLen - 1)}

\* answers of an idle device to a status request: ready with 24 mm tape, no media
\* (error bit 0, error status), and a tape width the table does not know
ReplyFrames == {Frame(0, 24, 0, 0, 0), Frame(1, 0, 2, 0, 0), Frame(0, 36, 0, 0, 0)}

\* frames a printing device sends by itself: phase changes to the receiving and the
\* printing state (phase type 0 and 1, phase number 0 or not), printing done, an
\* error, and a frame with an unknown tape width
JobFrames ==
    {Frame(0, 24, 6, 0, 0), Frame(0, 24, 6, 0, 1), Frame(0, 24, 6, 1, 0),
     Frame(0, 24, 1, 0, 0), Frame(0, 36, 6, 0, 0)}

\* the image label.render returns for a print area, after the transposes and the
\* inversion: `rows` rows (the label length) of `width` dots; row r is blank but for
\* its last byte, r
Image(width, rows) ==
    LET size == (width + 7) \div 8
    IN  [width |-> width,
         bytes |-> [n \in 1..(rows * size) |-> IF n % size = 0 THEN n \div size ELSE 0]]

\* an image one byte wider than the print area, its first dot set
WideImage(printarea) ==
    [width |-> printarea + 8,
     bytes |-> [n \in 1..((printarea + 15) \div 8) |-> IF n = 1 THEN 128 ELSE 0]]

Images(printarea) ==
    {Image(printarea, r) : r \in 0..MaxRows} \cup {WideImage(printarea)}

NoImage == [width |-> 0, bytes |-> <<>>]

-----------------------------------------------------------------------------
(* Initial state: a P700 after __init__, which stored the status it queried *)

Init ==
    /\ pc = "idle"
    /\ status \in {Status(f) : f \in {g \in ReplyFrames : Decodable(g)}}
    /\ _check_print_status = FALSE
    /\ copies = 0
    /\ jobStatus = <<>>
    /\ img = NoImage
    /\ documents = <<>>
    /\ iters = <<>>
    /\ i = None
    /\ elapsed = 0
    /\ exc = "none"
    /\ retval = <<>>
    /\ poller = "unstarted"
    /\ polled = <<>>
    /\ seen = <<>>
    /\ data = <<>>
    /\ wire = <<>>
    /\ advanced = <<>>
    /\ completed = <<>>
    /\ fresh = FALSE

-----------------------------------------------------------------------------
(* The caller: print_label and _raw_print *)

fgLocals == <<copies, jobStatus, img, documents, iters, i>>

bgLocals == <<poller, polled>>

history == <<advanced, completed>>

\* self.io.write(bytes) at position `at`: the write reaches the transport and control
\* moves to `next`, or the transport raises and control moves to `handler`
IOWrite(at, bytes, next, handler) ==
    /\ pc = at
    /\ \/ /\ wire' = Append(wire, bytes)
          /\ pc' = next
          /\ exc' = exc
       \/ /\ wire' = wire
          /\ pc' = handler
          /\ exc' = "TransportError"

\* get_status without its `if not data` test
get_status_result_NoEmptyTest(d) ==
    IF Len(d) < FrameLen THEN <<"raise", "InvalidResponse">>
    ELSE IF ~Decodable(d) THEN <<"raise", "KeyError">>
    ELSE <<"return", Status(d)>>

\* get_status, after its write: the checks on data = self.io.read(32) and the
\* decoding; <<"raise", name>> or <<"return", Status>>
get_status_result(d) ==
    IF Len(d) = 0 THEN <<"raise", "NoResponse">>
    ELSE IF Len(d) < FrameLen THEN <<"raise", "InvalidResponse">>
    ELSE IF ~Decodable(d) THEN <<"raise", "KeyError">>
    ELSE <<"return", Status(d)>>

\* print_label(label, copies) is called
PrintLabel ==
    /\ pc = "idle"
    /\ copies' \in 0..MaxCopies
    /\ pc' = "gs_write"
    /\ UNCHANGED <<status, _check_print_status, bgLocals, jobStatus, img, documents, iters,
                   i, elapsed, exc, retval, seen, data, wire, history, fresh>>

\* self.status = self.get_status(): the status request
GetStatusWrite ==
    /\ IOWrite("gs_write", status_request, "gs_read", "raised")
    /\ UNCHANGED <<status, _check_print_status, bgLocals, fgLocals, elapsed, retval, seen,
                   data, history, fresh>>

\* self.status = self.get_status(): the read, the length checks and the decoding
GetStatusRead ==
    /\ pc = "gs_read"
    /\ \E d \in ShortReads \cup ReplyFrames :
          LET r == get_status_result(d)
          IN  /\ data' = <<d>>
              /\ IF r[1] = "raise"
                 THEN exc' = r[2] /\ pc' = "raised" /\ status' = status
                 ELSE exc' = exc /\ pc' = "check_ready" /\ status' = r[2]
    /\ UNCHANGED <<_check_print_status, bgLocals, fgLocals, elapsed, retval, seen, wire,
                   history, fresh>>

\* print_label without the readiness check
CheckReady_Skipped ==
    /\ pc = "check_ready"
    /\ pc' = "render"
    /\ exc' = exc
    /\ UNCHANGED <<status, _check_print_status, bgLocals, fgLocals, elapsed, retval, seen,
                   data, wire, history, fresh>>

\* if not self.status.ready(): raise IOError("Printer is not ready")
CheckReady ==
    /\ pc = "check_ready"
    /\ IF ready(status)
       THEN pc' = "render" /\ exc' = exc
       ELSE pc' = "raised" /\ exc' = "PrinterNotReady"
    /\ UNCHANGED <<status, _check_print_status, bgLocals, fgLocals, elapsed, retval, seen,
                   data, wire, history, fresh>>

\* label.render(...) to create_copies(...), and the call of _raw_print
Render ==
    /\ pc = "render"
    /\ \E image \in Images(status.tape_info.printarea) :
          LET c == create_copies(image.bytes, RowSize(image), copies)
          IN  /\ img' = image
              /\ documents' = c.documents
              /\ iters' = c.iters
    /\ jobStatus' = <<status>>
    /\ pc' = "connect_zeros"
    /\ UNCHANGED <<status, _check_print_status, bgLocals, copies, i, elapsed, exc, retval,
                   seen, data, wire, history, fresh>>

\* connect(): self.io.write(b'\x00' * 100)
ConnectZeros ==
    /\ IOWrite("connect_zeros", connect_zeros, "connect_init", "raised")
    /\ UNCHANGED <<status, _check_print_status, bgLocals, fgLocals, elapsed, retval, seen,
                   data, history, fresh>>

\* connect(): self.io.write(b'\x1b\x40')
ConnectInit ==
    /\ IOWrite("connect_init", connect_init, "start", "raised")
    /\ UNCHANGED <<status, _check_print_status, bgLocals, fgLocals, elapsed, retval, seen,
                   data, history, fresh>>

\* self._check_print_status = True; status_thread.start()
StartPoller ==
    /\ pc = "start"
    /\ _check_print_status' = TRUE
    /\ poller' = "test"
    /\ pc' = "raster"
    /\ UNCHANGED <<status, polled, fgLocals, elapsed, exc, retval, seen, data, wire,
                   history, fresh>>

\* set_raster_mode() followed at once by set_margin: the two mode commands skipped
SetRasterMode_ThenMargin ==
    /\ IOWrite("raster", set_raster_mode, "margin", "finally")
    /\ UNCHANGED <<status, _check_print_status, bgLocals, fgLocals, elapsed, retval, seen,
                   data, history, fresh>>

\* the five configuration writes, the first statements of the try block
SetRasterMode ==
    /\ IOWrite("raster", set_raster_mode, "various", "finally")
    /\ UNCHANGED <<status, _check_print_status, bgLocals, fgLocals, elapsed, retval, seen,
                   data, history, fresh>>

SetVariousMode ==
    /\ IOWrite("various", set_various_mode(TRUE, FALSE), "advanced", "finally")
    /\ UNCHANGED <<status, _check_print_status, bgLocals, fgLocals, elapsed, retval, seen,
                   data, history, fresh>>

SetAdvancedMode ==
    /\ IOWrite("advanced", set_advanced_mode(TRUE, FALSE, FALSE), "margin", "finally")
    /\ UNCHANGED <<status, _check_print_status, bgLocals, fgLocals, elapsed, retval, seen,
                   data, history, fresh>>

SetMargin ==
    /\ IOWrite("margin", set_margin(Margin), "compression", "finally")
    /\ UNCHANGED <<status, _check_print_status, bgLocals, fgLocals, elapsed, retval, seen,
                   data, history, fresh>>

SetCompressionMode ==
    /\ IOWrite("compression", set_compression_mode(TRUE), "page", "finally")
    /\ UNCHANGED <<status, _check_print_status, bgLocals, fgLocals, elapsed, retval, seen,
                   data, history, fresh>>

\* for i in range(len(documents)): the next page, or the end of the loop
ForPage ==
    /\ pc = "page"
    /\ LET n == IF i = None THEN 0 ELSE i + 1
       IN  IF n < Len(documents)
           THEN i' = n /\ pc' = "line"
           ELSE i' = i /\ pc' = "eoj"
    /\ UNCHANGED <<status, _check_print_status, bgLocals, copies, jobStatus, img, documents,
                   iters, elapsed, exc, retval, seen, data, wire, history, fresh>>

\* for line in documents[i]: self.io.write(b'G' + encode_line(line, status.tape_info))
Line ==
    /\ pc = "line"
    /\ LET it   == documents[i + 1]
           line == NextChunk(img.bytes, RowSize(img), iters[it])
       IN  IF line = <<>>
           THEN /\ pc' = "eop"
                /\ UNCHANGED <<iters, exc, wire>>
           ELSE /\ iters' = [iters EXCEPT ![it] = @ + Len(line)]
                /\ IF ~EncodeFits(line, jobStatus[1].tape_info)
                   THEN /\ pc' = "finally"
                        /\ exc' = "OverflowError"
                        /\ wire' = wire
                   ELSE \/ /\ wire' = wire
                           /\ pc' = "finally"
                           /\ exc' = "TransportError"
                        \/ /\ wire' = Append(wire,
                                             raster_transfer(line, jobStatus[1].tape_info))
                           /\ pc' = "line"
                           /\ exc' = exc
    /\ UNCHANGED <<status, _check_print_status, bgLocals, copies, jobStatus, img, documents,
                   i, elapsed, retval, seen, data, history, fresh>>

\* self.print_empty_row(), and the test i+1 < len(documents)
EndOfPage ==
    /\ IOWrite("eop", print_empty_row,
               IF i + 1 < Len(documents) THEN "np" ELSE "page", "finally")
    /\ UNCHANGED <<status, _check_print_status, bgLocals, fgLocals, elapsed, retval, seen,
                   data, history, fresh>>

\* next_page() with the wait for the receiving state left out
NextPage_NoWait ==
    /\ IOWrite("np", next_page, "page", "finally")
    /\ elapsed' = 0
    /\ fresh' = (fresh /\ wire' = wire)
    /\ UNCHANGED <<status, _check_print_status, bgLocals, fgLocals, retval, seen, data,
                   history>>

\* self.next_page(); end = time.time() + 20.  Once the marker is written, what
\* self.status holds was assigned before it
NextPage ==
    /\ IOWrite("np", next_page, "adv_type", "finally")
    /\ elapsed' = 0
    /\ fresh' = (fresh /\ wire' = wire)
    /\ UNCHANGED <<status, _check_print_status, bgLocals, fgLocals, retval, seen, data,
                   history>>

\* the deadline of a wait, in sleeps: end - (end - 20)
Deadline == Timeout * SleepsPerSecond

\* time.sleep(0.1) lasts one tenth of a second, or, when the thread is held up,
\* longer than a whole deadline; past the deadline the clock is not told apart
SleepTimes == {1, Deadline + 1}

AfterSleep(d) == Min(elapsed + d, Deadline + 1)

\* self.status.data.get('status_type') == 6
PageAdvanceType(s) == s.data.status_type = PHASE_CHANGE_CODE

\* the second conjunct of line 280 on the 16-bit phase number instead
PageAdvancePhase_ByNumber(s) ==
    s.data.phase_number_hi = 0 /\ s.data.phase_number_lo = 0

\* self.status.data.get('phase_type') == 0
PageAdvancePhase(s) == s.data.phase_type = 0

\* the completion test against the key of PRINTING_DONE's neighbour in the map
PrintingDone_WrongCode(s) == s.data.status_type = 0

\* self.status.data.get('status_type') == 1
PrintingDone(s) == s.data.status_type = PRINTING_DONE_CODE

\* what a wait left by `break` is remembered by: the number of writes made before
\* it, and the fields of the Status objects its condition loaded
Observed(first, second) ==
    [writes          |-> Len(wire),
     status_type     |-> first.data.status_type,
     phase_type      |-> second.data.phase_type,
     phase_number_hi |-> second.data.phase_number_hi,
     phase_number_lo |-> second.data.phase_number_lo]

\* line 280, first conjunct: self.status is loaded and its status type compared
AdvType ==
    /\ pc = "adv_type"
    /\ seen' = <<status>>
    /\ pc' = IF PageAdvanceType(status) THEN "adv_phase" ELSE "adv_sleep"
    /\ UNCHANGED <<status, _check_print_status, bgLocals, fgLocals, elapsed, exc, retval,
                   data, wire, history, fresh>>

\* line 280, second conjunct: self.status is loaded again and its phase type
\* compared; line 281: break when both held
AdvPhase ==
    /\ pc = "adv_phase"
    /\ IF PageAdvancePhase(status)
       THEN /\ pc' = "page"
            /\ elapsed' = 0
            /\ seen' = <<>>
            /\ advanced' = Append(advanced, Observed(seen[1], status))
       ELSE /\ pc' = "adv_sleep"
            /\ UNCHANGED <<elapsed, seen, advanced>>
    /\ UNCHANGED <<status, _check_print_status, bgLocals, fgLocals, exc, retval, data, wire,
                   completed, fresh>>

\* the page-advance wait giving up at the deadline without raising
AdvSleep_NoRaise ==
    /\ pc = "adv_sleep"
    /\ seen' = <<>>
    /\ \E d \in SleepTimes :
          /\ elapsed' = AfterSleep(d)
          /\ pc' = IF AfterSleep(d) > Deadline THEN "page" ELSE "adv_type"
          /\ exc' = exc
    /\ UNCHANGED <<status, _check_print_status, bgLocals, fgLocals, retval, data, wire,
                   history, fresh>>

\* time.sleep(0.1); if time.time() > end: raise TimeoutError(...)
AdvSleep ==
    /\ pc = "adv_sleep"
    /\ seen' = <<>>
    /\ \E d \in SleepTimes :
          /\ elapsed' = AfterSleep(d)
          /\ IF AfterSleep(d) > Deadline
             THEN pc' = "finally" /\ exc' = "PageAdvanceTimeout"
             ELSE pc' = "adv_type" /\ exc' = exc
    /\ UNCHANGED <<status, _check_print_status, bgLocals, fgLocals, retval, data, wire,
                   history, fresh>>

\* self.last_page_end(); end = time.time() + 20
EndOfJob ==
    /\ IOWrite("eoj", last_page_end, "done_type", "finally")
    /\ elapsed' = 0
    /\ UNCHANGED <<status, _check_print_status, bgLocals, fgLocals, retval, seen, data,
                   history, fresh>>

\* line 292: self.status is loaded and its status type compared; break when it is
\* 1, which leaves the try block
DoneType ==
    /\ pc = "done_type"
    /\ IF PrintingDone(status)
       THEN /\ pc' = "finally"
            /\ elapsed' = 0
            /\ completed' = Append(completed, Observed(status, status))
       ELSE /\ pc' = "done_sleep"
            /\ UNCHANGED <<elapsed, completed>>
    /\ UNCHANGED <<status, _check_print_status, bgLocals, fgLocals, exc, retval, seen, data,
                   wire, advanced, fresh>>

\* the completion wait without its deadline: it sleeps and tests again, for ever
DoneSleep_NoDeadline ==
    /\ pc = "done_sleep"
    /\ \E d \in SleepTimes :
          /\ elapsed' = AfterSleep(d)
          /\ pc' = "done_type"
          /\ exc' = exc
    /\ UNCHANGED <<status, _check_print_status, bgLocals, fgLocals, retval, seen, data, wire,
                   history, fresh>>

\* time.sleep(0.1); if time.time() > end: raise TimeoutError(...)
DoneSleep ==
    /\ pc = "done_sleep"
    /\ \E d \in SleepTimes :
          /\ elapsed' = AfterSleep(d)
          /\ IF AfterSleep(d) > Deadline
             THEN pc' = "finally" /\ exc' = "PrintCompletionTimeout"
             ELSE pc' = "done_type" /\ exc' = exc
    /\ UNCHANGED <<status, _check_print_status, bgLocals, fgLocals, retval, seen, data, wire,
                   history, fresh>>

\* finally: self._check_print_status = False
Finally ==
    /\ pc = "finally"
    /\ _check_print_status' = FALSE
    /\ pc' = "join"
    /\ UNCHANGED <<status, bgLocals, fgLocals, elapsed, exc, retval, seen, data, wire,
                   history, fresh>>

\* the finally block without the join: the thread is left to itself
Join_NoWait ==
    /\ pc = "join"
    /\ pc' = IF exc = "none" THEN "ret_write" ELSE "raised"
    /\ UNCHANGED <<status, _check_print_status, bgLocals, fgLocals, elapsed, exc, retval,
                   seen, data, wire, history, fresh>>

\* finally: status_thread.join() blocks until the thread has ended; then the
\* exception in flight, if any, leaves _raw_print and print_label
Join ==
    /\ pc = "join"
    /\ poller \in {"exited", "died"}
    /\ pc' = IF exc = "none" THEN "ret_write" ELSE "raised"
    /\ UNCHANGED <<status, _check_print_status, bgLocals, fgLocals, elapsed, exc, retval,
                   seen, data, wire, history, fresh>>

\* return self.get_status(): the status request
ReturnStatusWrite ==
    /\ IOWrite("ret_write", status_request, "ret_read", "raised")
    /\ UNCHANGED <<status, _check_print_status, bgLocals, fgLocals, elapsed, retval, seen,
                   data, history, fresh>>

\* print_label returning the shared status instead of querying: return self.status
ReturnStatusRead_Stale ==
    /\ pc = "ret_read"
    /\ pc' = "returned"
    /\ retval' = <<status>>
    /\ UNCHANGED <<status, _check_print_status, bgLocals, fgLocals, elapsed, exc, seen, data,
                   wire, history, fresh>>

\* return self.get_status(): the read, the checks and the decoding.  The transport
\* may still hold a frame the device sent during the job
ReturnStatusRead ==
    /\ pc = "ret_read"
    /\ \E d \in ShortReads \cup ReplyFrames \cup JobFrames :
          LET r == get_status_result(d)
          IN  /\ data' = <<d>>
              /\ IF r[1] = "raise"
                 THEN exc' = r[2] /\ pc' = "raised" /\ retval' = retval
                 ELSE exc' = exc /\ pc' = "returned" /\ retval' = <<r[2]>>
    /\ UNCHANGED <<status, _check_print_status, bgLocals, fgLocals, elapsed, seen, wire,
                   history, fresh>>

-----------------------------------------------------------------------------
(* The status thread: _print_status_check *)

\* while self._check_print_status: the top of an iteration, nothing read in it yet
PollerTest ==
    /\ poller = "test"
    /\ poller' = IF _check_print_status THEN "read" ELSE "exited"
    /\ polled' = <<>>
    /\ UNCHANGED <<pc, status, _check_print_status, fgLocals, elapsed, exc, retval, seen,
                   data, wire, history, fresh>>

\* what io.read(32) returns to the status thread: nothing, a partial frame, or a
\* frame the printing device sent
PollerReads == {Zeros(0), Zeros(FrameLen - 1)} \cup JobFrames

\* the thread treating a short read as get_status does: it raises, the thread ends
PollerRead_RaisesOnShort ==
    /\ poller = "read"
    /\ \E d \in PollerReads :
          /\ polled' = <<d>>
          /\ fresh' = (fresh \/ (Len(d) = FrameLen /\ Decodable(d)))
          /\ IF Len(d) = FrameLen /\ Decodable(d)
             THEN status' = Status(d) /\ poller' = "test"
             ELSE status' = status /\ poller' = "died"
    /\ UNCHANGED <<pc, _check_print_status, fgLocals, elapsed, exc, retval, seen, data,
                   wire, history>>

\* data = self.io.read(32); if len(data) == 32: self.status = Status(data);
\* time.sleep(0.1).  A KeyError out of Status(data) ends the thread
PollerRead ==
    /\ poller = "read"
    /\ \E d \in PollerReads :
          /\ polled' = <<d>>
          /\ fresh' = (fresh \/ (Len(d) = FrameLen /\ Decodable(d)))
          /\ IF Len(d) = FrameLen
             THEN IF Decodable(d)
                  THEN status' = Status(d) /\ poller' = "test"
                  ELSE status' = status /\ poller' = "died"
             ELSE status' = status /\ poller' = "test"
    /\ UNCHANGED <<pc, _check_print_status, fgLocals, elapsed, exc, retval, seen, data,
                   wire, history>>

-----------------------------------------------------------------------------

Next ==
    \/ PrintLabel \/ GetStatusWrite \/ GetStatusRead \/ CheckReady \/ Render
    \/ ConnectZeros \/ ConnectInit \/ StartPoller
    \/ SetRasterMode \/ SetVariousMode \/ SetAdvancedMode \/ SetMargin
    \/ SetCompressionMode
    \/ ForPage \/ Line \/ EndOfPage \/ NextPage \/ AdvType \/ AdvPhase \/ AdvSleep
    \/ EndOfJob \/ DoneType \/ DoneSleep
    \/ Finally \/ Join \/ ReturnStatusWrite \/ ReturnStatusRead
    \/ PollerTest \/ PollerRead

Spec == Init /\ [][Next]_vars

\* the steps of the calling thread, and the steps of the status thread
Caller ==
    \/ PrintLabel \/ GetStatusWrite \/ GetStatusRead \/ CheckReady \/ Render
    \/ ConnectZeros \/ ConnectInit \/ StartPoller
    \/ SetRasterMode \/ SetVariousMode \/ SetAdvancedMode \/ SetMargin
    \/ SetCompressionMode
    \/ ForPage \/ Line \/ EndOfPage \/ NextPage \/ AdvType \/ AdvPhase \/ AdvSleep
    \/ EndOfJob \/ DoneType \/ DoneSleep
    \/ Finally \/ Join \/ ReturnStatusWrite \/ ReturnStatusRead

StatusThread == PollerTest \/ PollerRead

-----------------------------------------------------------------------------
(* The status decoder on its own: Status(msg) applied to one 32-byte frame *)

\* a 32-byte frame holding the given bytes at the given offsets, zero elsewhere
FrameWith(bytes) ==
    [k \in 1..FrameLen |-> IF (k - 1) \in DOMAIN bytes THEN bytes[k - 1] ELSE 0]

\* frames over every code of the three tables and codes outside them, with
\* error bits of both error bytes
DecodeFrames ==
    {FrameWith((8 :> e[1]) @@ (9 :> e[2]) @@ (10 :> mw) @@ (11 :> mt) @@ (18 :> st)) :
        e \in {<<0, 0>>, <<1, 0>>, <<0, 16>>},
        mw \in {0, 4, 6, 9, 12, 18, 24, 5, 36, 255},
        mt \in {0, 1, 2, 17, 255, 3},
        st \in {0, 1, 2, 4, 5, 6, 3, 255}}

DecodeInit ==
    /\ pc = "decode"
    /\ data \in {<<f>> : f \in DecodeFrames}
    /\ status = Status(Zeros(FrameLen))
    /\ _check_print_status = FALSE
    /\ copies = 0
    /\ jobStatus = <<>>
    /\ img = NoImage
    /\ documents = <<>>
    /\ iters = <<>>
    /\ i = None
    /\ elapsed = 0
    /\ exc = "none"
    /\ retval = <<>>
    /\ poller = "unstarted"
    /\ polled = <<>>
    /\ seen = <<>>
    /\ wire = <<>>
    /\ advanced = <<>>
    /\ completed = <<>>
    /\ fresh = FALSE

\* Status(data): the Status, or the KeyError of the tape table lookup
Decode ==
    /\ pc = "decode"
    /\ pc' = "decoded"
    /\ IF Decodable(data[1])
       THEN retval' = <<Status(data[1])>> /\ exc' = exc
       ELSE retval' = retval /\ exc' = "KeyError"
    /\ UNCHANGED <<status, _check_print_status, bgLocals, fgLocals, elapsed, seen, data,
                   wire, history, fresh>>

DecodeNext == Decode

DecodeSpec == DecodeInit /\ [][DecodeNext]_vars

-----------------------------------------------------------------------------
(* Status.ready() on its own: a frame is decoded, then ready() is called on it *)

\* 32-byte frames over every pair of error bytes, with 24 mm tape
ReadyFrames ==
    {FrameWith((8 :> byte1) @@ (9 :> byte2) @@ (10 :> 24)) :
        byte1 \in 0..255, byte2 \in 0..255}

ReadyInit ==
    /\ pc = "decode"
    /\ data \in {<<f>> : f \in ReadyFrames}
    /\ status = Status(Zeros(FrameLen))
    /\ _check_print_status = FALSE
    /\ copies = 0
    /\ jobStatus = <<>>
    /\ img = NoImage
    /\ documents = <<>>
    /\ iters = <<>>
    /\ i = None
    /\ elapsed = 0
    /\ exc = "none"
    /\ retval = <<>>
    /\ poller = "unstarted"
    /\ polled = <<>>
    /\ seen = <<>>
    /\ wire = <<>>
    /\ advanced = <<>>
    /\ completed = <<>>
    /\ fresh = FALSE

\* status.ready() on the Status just decoded; retval is what the call returned
ReadyCall ==
    /\ pc = "decoded"
    /\ retval # <<>>
    /\ pc' = "ready_called"
    /\ retval' = <<ready(retval[1])>>
    /\ UNCHANGED <<status, _check_print_status, bgLocals, fgLocals, elapsed, exc, seen, data,
                   wire, history, fresh>>

ReadyNext == Decode \/ ReadyCall

ReadySpec == ReadyInit /\ [][ReadyNext]_vars

-----------------------------------------------------------------------------
(* The row loop on its own: _raw_print at line 271 of a one-page job, for every
   tape with a geometry and a family of rendered images *)

\* byte values of the scanlines: blank, the lowest and the highest dot, all dots,
\* and every other dot
LineBytes == {0, 1, 128, 255, 85}

\* every scanline of at most n bytes over LineBytes
RECURSIVE LinesUpTo(_)
LinesUpTo(n) ==
    IF n = 0 THEN {<<>>}
    ELSE LET shorter == LinesUpTo(n - 1)
         IN  shorter \cup {Append(l, b) : l \in shorter, b \in LineBytes}

\* a scanline of n bytes: runs of `run` bytes, alternately a and b
PatternLine(n, a, b, run) ==
    [k \in 1..n |-> IF ((k - 1) \div run) % 2 = 0 THEN a ELSE b]

\* scanlines as long as the print head, one byte shorter and one byte longer
LongLines ==
    {PatternLine(n, a, b, run) :
        n \in (HeadBytes - 1)..(HeadBytes + 1), a \in LineBytes, b \in LineBytes,
        run \in 1..3}

\* the dots of a row of `printarea` dots: none, all, the first, the last, both
\* ends, every other dot
RowDots(printarea) ==
    {[k \in 1..printarea |-> 0], [k \in 1..printarea |-> 1],
     [k \in 1..printarea |-> IF k = 1 THEN 1 ELSE 0],
     [k \in 1..printarea |-> IF k = printarea THEN 1 ELSE 0],
     [k \in 1..printarea |-> IF k \in {1, printarea} THEN 1 ELSE 0],
     [k \in 1..printarea |-> k % 2]}

\* img.tobytes() of a mode "1" image one row long: the dots of the row, most
\* significant bit first, the row padded with zero bits to a whole byte
RowBytes(dots) == FromBits(dots \o Zeros((8 - (Len(dots) % 8)) % 8))

\* one-row images: one as wide as the print area for each of RowDots, and one
\* for each scanline of LinesUpTo and LongLines, eight dots to the byte
LineImages(printarea) ==
    {[width |-> printarea, bytes |-> RowBytes(dots)] : dots \in RowDots(printarea)}
    \cup {[width |-> 8 * Len(l), bytes |-> l] :
             l \in (LinesUpTo(MaxLineBytes) \ {<<>>}) \cup LongLines}

\* media-width codes whose table entry has a geometry
TapeCodes == {code \in DOMAIN MEDIA_WIDTH_INFO : MEDIA_WIDTH_INFO[code].rmargin # None}

LineInit ==
    /\ pc = "line"
    /\ \E code \in TapeCodes :
          LET reply == Frame(0, code, 0, 0, 0)
          IN  /\ data = <<reply>>
              /\ status = Status(reply)
              /\ jobStatus = <<status>>
    /\ img \in LineImages(status.tape_info.printarea)
    /\ copies = 1
    /\ documents = create_copies(img.bytes, RowSize(img), copies).documents
    /\ iters = create_copies(img.bytes, RowSize(img), copies).iters
    /\ i = 0
    /\ _check_print_status = TRUE
    /\ poller = "test"
    /\ polled = <<>>
    /\ elapsed = 0
    /\ exc = "none"
    /\ retval = <<>>
    /\ seen = <<>>
    /\ wire = <<status_request, connect_zeros, connect_init, set_raster_mode,
                set_various_mode(TRUE, FALSE), set_advanced_mode(TRUE, FALSE, FALSE),
                set_margin(Margin), set_compression_mode(TRUE)>>
    /\ advanced = <<>>
    /\ completed = <<>>
    /\ fresh = FALSE

LineNext == Line

LineSpec == LineInit /\ [][LineNext]_vars

-----------------------------------------------------------------------------
(* build_byte on its own: one call on a dict from bit positions to booleans *)

\* the keys of the dicts: the eight positions of a byte and two keys outside
BitKeys == 0..9

\* every dict with keys among BitKeys and boolean values
BitDicts == UNION {[keys -> BOOLEAN] : keys \in SUBSET BitKeys}

BuildByteInit ==
    /\ pc = "build_byte"
    /\ data \in {<<bits>> : bits \in BitDicts}
    /\ status = Status(Zeros(FrameLen))
    /\ _check_print_status = FALSE
    /\ copies = 0
    /\ jobStatus = <<>>
    /\ img = NoImage
    /\ documents = <<>>
    /\ iters = <<>>
    /\ i = None
    /\ elapsed = 0
    /\ exc = "none"
    /\ retval = <<>>
    /\ poller = "unstarted"
    /\ polled = <<>>
    /\ seen = <<>>
    /\ wire = <<>>
    /\ advanced = <<>>
    /\ completed = <<>>
    /\ fresh = FALSE

\* P700.build_byte(bits); retval is what the call returned
BuildByte ==
    /\ pc = "build_byte"
    /\ pc' = "built"
    /\ retval' = <<build_byte(data[1])>>
    /\ UNCHANGED <<status, _check_print_status, bgLocals, fgLocals, elapsed, exc, seen, data,
                   wire, history, fresh>>

BuildByteNext == BuildByte

BuildByteSpec == BuildByteInit /\ [][BuildByteNext]_vars

-----------------------------------------------------------------------------
(* Vocabulary of the properties *)

\* print_label has left _raw_print
RawPrintEnded == pc \in {"ret_write", "ret_read", "returned", "raised"}

\* the caller is inside the page-advance wait, or inside the completion wait
InAdvanceWait == pc \in {"adv_type", "adv_phase", "adv_sleep"}
InCompletionWait == pc \in {"done_type", "done_sleep"}

Count(seq, x) == Cardinality({k \in 1..Len(seq) : seq[k] = x})

IsRaster(w) == Len(w) > 0 /\ w[1] = 71

Rasters(seq) == Cardinality({k \in 1..Len(seq) : IsRaster(seq[k])})

LastWrite == IF Len(wire) = 0 THEN <<>> ELSE wire[Len(wire)]

\* the number of rows of the rendered image, and its r-th row
Rows == IF RowSize(img) = 0 THEN 0 ELSE Len(img.bytes) \div RowSize(img)
Row(r) == SubSeq(img.bytes, (r - 1) * RowSize(img) + 1, r * RowSize(img))

\* the writes of a job after its status request, its preamble and its five
\* configuration commands
JobWrites == SubSeq(wire, 9, Len(wire))

-----------------------------------------------------------------------------
(* C1: whenever _raw_print has ended, by return or by a failure, the stop flag
   _check_print_status is false and the status thread is not running: it was
   never started (the failure came before the start), or it has ended and was
   joined.  print_label is never back at its caller with the thread alive. *)
C1_PollerStoppedAtExit ==
    RawPrintEnded =>
        /\ _check_print_status = FALSE
        /\ poller \in {"unstarted", "exited", "died"}

\* a job that failed with the page-advance timeout, its thread ended
C1_Witness ==
    pc = "raised" /\ exc = "PageAdvanceTimeout" /\ poller = "exited"

(* C2: when a job of N >= 1 pages of R rows returns normally, the writes after
   the configuration are, page by page, the R rows in row order, each 'G' and
   the encoded line, then 0x5A, then 0x0C iff a later page exists, and after
   the last page one 0x1A: N*R raster transfers, N end-of-page markers, N-1
   next-page markers, 1 end-of-job marker. *)
PageWrites(p) ==
    [r \in 1..Rows |-> <<71>> \o encode_line(Row(r), jobStatus[1].tape_info)]
    \o << <<90>> >>
    \o (IF p < copies THEN << <<12>> >> ELSE <<>>)

RECURSIVE PagesFrom(_)
PagesFrom(p) == IF p > copies THEN <<>> ELSE PageWrites(p) \o PagesFrom(p + 1)

C2_JobWritesInOrder ==
    (pc = "ret_write" /\ copies >= 1) =>
        /\ JobWrites = PagesFrom(1) \o << <<26>> >>
        /\ Rasters(JobWrites) = copies * Rows
        /\ Count(JobWrites, <<90>>) = copies
        /\ Count(JobWrites, <<12>>) = copies - 1
        /\ Count(JobWrites, <<26>>) = 1

\* a job of two pages of two rows has returned
C2_Witness ==
    pc = "ret_write" /\ copies = 2 /\ Rows = 2 /\ Rasters(JobWrites) = 4

(* C3: the next-page marker of a page is on the wire before the caller starts
   to wait, and nothing of the next page is written until the caller, after
   that marker, has evaluated the page-advance condition to true (status type
   6 at its first load of self.status, phase type 0 at its second). *)
C3_MarkerThenObservation ==
    /\ InAdvanceWait =>
          /\ LastWrite = <<12>>
          /\ Len(advanced) = Count(wire, <<12>>) - 1
    /\ (Len(wire) > 0 /\ LastWrite # <<12>>) => Len(advanced) = Count(wire, <<12>>)
    /\ \A k \in 1..Len(advanced) :
          /\ advanced[k].status_type = 6
          /\ advanced[k].phase_type = 0
          /\ wire[advanced[k].writes] = <<12>>
          /\ Count(SubSeq(wire, 1, advanced[k].writes), <<12>>) = k

\* a row of the second page is on the wire
C3_Witness ==
    /\ Len(advanced) = 1
    /\ IsRaster(LastWrite)
    /\ Count(wire, <<12>>) = 1
    /\ i = 1

(* C4: the job part of the wire always begins with, in this order and each
   once, the reset preamble (100 zero bytes, then ESC @), raster-mode select,
   various-mode flags, advanced-mode flags, the margin as two little-endian
   bytes, and the compression-mode flag, or with the part of that sequence
   written so far; none of them is written again, and all seven writes are on
   the wire before the first raster transfer or marker and in every job that
   got past its configuration. *)
ConfigSequence ==
    << [k \in 1..100 |-> 0], <<27, 64>>, <<27, 105, 97, 1>>, <<27, 105, 77, 64>>,
       <<27, 105, 75, 8>>, <<27, 105, 100, 14, 0>>, <<77, 2>> >>

\* the wire after the status request of print_label
AfterRequest == SubSeq(wire, 2, Len(wire))

PastConfiguration ==
    \/ pc \in {"page", "line", "eop", "np", "eoj", "ret_write", "ret_read", "returned"}
    \/ InAdvanceWait
    \/ InCompletionWait
    \/ exc \in {"PageAdvanceTimeout", "PrintCompletionTimeout", "OverflowError"}

C4_ConfigurationFirst ==
    LET n == Min(Len(AfterRequest), Len(ConfigSequence))
    IN  /\ SubSeq(AfterRequest, 1, n) = SubSeq(ConfigSequence, 1, n)
        /\ \A k \in 1..Len(ConfigSequence) : Count(wire, ConfigSequence[k]) <= 1
        /\ \A k \in 1..Len(AfterRequest) :
              (IsRaster(AfterRequest[k]) \/ AfterRequest[k] \in {<<90>>, <<12>>, <<26>>})
                  => k > Len(ConfigSequence)
        /\ PastConfiguration =>
              \A k \in 1..Len(ConfigSequence) : Count(wire, ConfigSequence[k]) = 1

\* the first raster transfer of a job has just been written
C4_Witness ==
    Rasters(wire) = 1 /\ IsRaster(LastWrite) /\ Len(wire) = 9

(* C5: when the status read at the start of print_label has an error flag
   set, print_label fails with the not-ready error having written nothing but
   its status request, and the status thread is never started; whatever is
   written after the request, and every started thread, belongs to a job whose
   status had no error bit (positions 0, 2, 3, 6, 8, 12, 13) set. *)
NoErrorBit(s) ==
    \A b \in {0, 2, 3, 6, 8, 12, 13} :
        ((s.data.error_1 + 256 * s.data.error_2) \div Pow2(b)) % 2 = 0

C5_NotReadyWritesNothing ==
    /\ exc = "PrinterNotReady" =>
          /\ pc = "raised"
          /\ ~NoErrorBit(status)
          /\ wire = << <<27, 105, 83>> >>
          /\ poller = "unstarted"
          /\ _check_print_status = FALSE
    /\ pc = "render" => (NoErrorBit(status) /\ wire = << <<27, 105, 83>> >>)
    /\ (Len(wire) > 1 \/ poller # "unstarted") =>
          /\ jobStatus # <<>>
          /\ NoErrorBit(jobStatus[1])

\* print_label has failed on a status with the no-media bit set
C5_Witness ==
    pc = "raised" /\ exc = "PrinterNotReady" /\ status.data.error_1 = 1

(* C6: a page-advance wait is left only by a check that evaluated to true or,
   once more than 20 seconds (200 sleeps) have passed, by the page-advance
   timeout; after that failure the wire still ends with the next-page marker
   (no row of a later page, no end-of-job marker), and when print_label has
   failed the status thread is stopped. *)
C6_AdvanceTimeoutAborts ==
    /\ InAdvanceWait => elapsed <= 200
    /\ (LastWrite = <<12>> /\ Len(advanced) < Count(wire, <<12>>)) =>
          \/ InAdvanceWait
          \/ /\ exc = "PageAdvanceTimeout"
             /\ pc \in {"finally", "join", "raised"}
    /\ exc = "PageAdvanceTimeout" =>
          /\ elapsed > 200
          /\ pc \in {"finally", "join", "raised"}
          /\ LastWrite = <<12>>
          /\ Len(advanced) = Count(wire, <<12>>) - 1
          /\ Count(wire, <<26>>) = 0
          /\ Rasters(wire) <= (i + 1) * Rows
          /\ retval = <<>>
          /\ pc = "raised" =>
                (_check_print_status = FALSE /\ poller \in {"exited", "died"})

\* print_label has failed with the page-advance timeout after the first page
C6_Witness ==
    /\ pc = "raised"
    /\ exc = "PageAdvanceTimeout"
    /\ Rasters(wire) = 2
    /\ i = 0
    /\ poller \in {"exited", "died"}

(* C7: the completion wait starts after the end-of-job marker, written after
   the last page; _raw_print returns normally only after a check, made with
   that marker on the wire, that loaded a status of status type 1; the wait
   lasts at most 20 seconds (200 sleeps), and when no check succeeded by then
   print_label fails with the completion timeout and returns no status. *)
C7_CompletionObserved ==
    /\ InCompletionWait =>
          /\ LastWrite = <<26>>
          /\ Count(wire, <<26>>) = 1
          /\ Count(wire, <<90>>) = copies
          /\ elapsed <= 200
          /\ completed = <<>>
    /\ (pc \in {"ret_write", "ret_read", "returned"} \/ retval # <<>>) =>
          /\ Len(completed) = 1
          /\ completed[1].status_type = 1
          /\ wire[completed[1].writes] = <<26>>
          /\ exc \notin {"PageAdvanceTimeout", "PrintCompletionTimeout"}
    /\ (Count(wire, <<26>>) = 1 /\ completed = <<>>) =>
          \/ InCompletionWait
          \/ /\ exc = "PrintCompletionTimeout"
             /\ pc \in {"finally", "join", "raised"}
    /\ exc = "PrintCompletionTimeout" =>
          /\ elapsed > 200
          /\ pc \in {"finally", "join", "raised"}
          /\ completed = <<>>
          /\ LastWrite = <<26>>
          /\ retval = <<>>

\* print_label has returned a status after a job of one page
C7_Witness ==
    pc = "returned" /\ copies = 1 /\ Len(completed) = 1 /\ retval # <<>>

(* C8 (as amended): the page-advance wait is left by `break` exactly when the
   caller loads status type 6 (PHASE_CHANGE) from the shared status and then
   loads phase type 0 (frame byte 19) from it; any other status type, or a
   non-zero phase type, sends it to sleep, and the phase number (frame bytes
   20-21) and every other field never change the outcome. *)
C8_AdvanceOnTypeAndPhaseType ==
    /\ [](\A k \in 1..Len(advanced) :
             advanced[k].status_type = 6 /\ advanced[k].phase_type = 0)
    /\ [](pc = "adv_phase" => (seen # <<>> /\ seen[1].data.status_type = 6))
    /\ [][(pc = "adv_type" /\ pc' # pc) =>
             /\ pc' = (IF status.data.status_type = 6 THEN "adv_phase" ELSE "adv_sleep")
             /\ advanced' = advanced]_vars
    /\ [][(pc = "adv_phase" /\ pc' # pc) =>
             IF status.data.phase_type = 0
             THEN pc' = "page" /\ Len(advanced') = Len(advanced) + 1
             ELSE pc' = "adv_sleep" /\ advanced' = advanced]_vars
    /\ [][(pc = "adv_sleep" /\ pc' # pc) =>
             (pc' \in {"adv_type", "finally"} /\ advanced' = advanced)]_vars

\* a wait has ended on a status whose phase number is not 0
C8_Witness ==
    /\ Len(advanced) >= 1
    /\ advanced[1].phase_number_lo = 1
    /\ pc = "line"

\* C8 as stated: every wait that ended by `break` ended on status type 6 and a
\* 16-bit phase number (frame bytes 20-21) of 0
C8_Original ==
    \A k \in 1..Len(advanced) :
        /\ advanced[k].status_type = 6
        /\ advanced[k].phase_number_hi = 0
        /\ advanced[k].phase_number_lo = 0

(* C9: a status query whose read returns 0 bytes fails with the no-response
   error, one whose read returns 1 to 31 bytes fails with the
   invalid-response error, only a read of 32 bytes is decoded; a query that
   fails in one of these two ways produces no Status and leaves self.status
   as it was. *)
C9_ShortReadsFail ==
    /\ [](data # <<>> =>
            /\ Len(data[1]) = 0 <=> exc = "NoResponse"
            /\ Len(data[1]) \in 1..31 <=> exc = "InvalidResponse")
    /\ []((pc = "check_ready" \/ retval # <<>> \/ exc = "KeyError") =>
            (data # <<>> /\ Len(data[1]) = 32))
    /\ [](exc \in {"NoResponse", "InvalidResponse"} => (pc = "raised" /\ retval = <<>>))
    /\ [][exc' \in {"NoResponse", "InvalidResponse"} =>
             (status' = status /\ retval' = <<>>)]_vars
    /\ [][(pc = "gs_read" /\ pc' = "check_ready") =>
             \A f \in DOMAIN status'.data :
                 status'.data[f] = data'[1][INFO_OFFSETS[f] + 1]]_vars

\* a query has failed on a read of 31 bytes
C9_Witness ==
    exc = "InvalidResponse" /\ data # <<>> /\ Len(data[1]) = 31 /\ pc = "raised"

(* C10 (as amended): decoding a 32-byte frame whose media-width byte is a code
   of the tape table (0, 4, 6, 9, 12, 18, 24) yields a Status, whatever its
   status-type and media-type bytes, and that Status is a function of the
   frame: each field is the byte at its offset and the tape is the table's
   entry; a 32-byte frame with any other media-width byte yields no Status
   but a KeyError. *)
TapeOf(code) ==
    CASE code = 0 -> <<0 - 1, 0 - 1, 0 - 1, 0 - 1>>
      [] code = 4 -> <<52, 24, 52, 35>>
      [] code = 6 -> <<48, 32, 48, 60>>
      [] code = 9 -> <<39, 50, 39, 90>>
      [] code = 12 -> <<29, 70, 29, 120>>
      [] code = 18 -> <<8, 112, 8, 180>>
      [] code = 24 -> <<0, 128, 0, 240>>

C10_DecodeTotalOnKnownWidths ==
    pc = "decoded" =>
        LET f == data[1]
        IN  IF f[11] \in {0, 4, 6, 9, 12, 18, 24}
            THEN /\ exc = "none"
                 /\ retval # <<>>
                 /\ retval[1].data =
                       [printhead_mark |-> f[1], model_code |-> f[5], error_1 |-> f[9],
                        error_2 |-> f[10], media_width |-> f[11], media_type |-> f[12],
                        mode |-> f[16], media_length |-> f[18], status_type |-> f[19],
                        phase_type |-> f[20], phase_number_hi |-> f[21],
                        phase_number_lo |-> f[22], notify_no |-> f[23],
                        hardware_settings |-> f[27]]
                 /\ <<retval[1].tape_info.lmargin, retval[1].tape_info.printarea,
                      retval[1].tape_info.rmargin, retval[1].tape_info.width>>
                       = TapeOf(f[11])
            ELSE /\ exc = "KeyError"
                 /\ retval = <<>>

\* a frame with a status type and a media type outside the tables was decoded
C10_Witness ==
    /\ pc = "decoded"
    /\ retval # <<>>
    /\ data[1][19] = 255
    /\ data[1][12] = 3
    /\ data[1][11] = 18

\* C10 as stated: every 32-byte frame yields a Status
C10_Original ==
    (pc = "decoded" /\ Len(data[1]) = 32) => retval # <<>>

(* C11: for every pair of error bytes (frame bytes 8 and 9), ready() returns
   true exactly when none of the bits 0, 2, 3, 6 of byte 8 and none of the
   bits 0, 4, 5 of byte 9 (positions 8, 12, 13 of the 16-bit field) is set;
   the bits at the nine other positions never change what it returns. *)
C11_ReadyIffNoErrorBit ==
    pc = "ready_called" =>
        LET byte1 == data[1][9]
            byte2 == data[1][10]
            bit(byte, n) == (byte \div (2 ^ n)) % 2
        IN  retval[1] =
               (/\ bit(byte1, 0) = 0 /\ bit(byte1, 2) = 0 /\ bit(byte1, 3) = 0
                /\ bit(byte1, 6) = 0
                /\ bit(byte2, 0) = 0 /\ bit(byte2, 4) = 0 /\ bit(byte2, 5) = 0)

\* ready() has returned true on a frame with every unused error bit set
C11_Witness ==
    /\ pc = "ready_called"
    /\ retval[1] = TRUE
    /\ data[1][9] = 178
    /\ data[1][10] = 206

(* C12: round trip of encode_line.  For every scanline L and every tape with a
   geometry whose encoding succeeded, the raster transfer written is 'G', a
   2-byte little-endian count, and a payload of exactly that many bytes;
   unpacking the payload (PackBits) gives 16 bytes that are the big-endian
   value of L shifted left by the tape's right margin; and shifting the value
   of those 16 bytes right by the same margin gives back the value of L. *)
RECURSIVE Unpack(_)
Unpack(p) ==
    IF Len(p) < 2 THEN <<>>
    ELSE IF p[1] <= 127
         THEN SubSeq(p, 2, Min(p[1] + 2, Len(p))) \o Unpack(SubSeq(p, p[1] + 3, Len(p)))
         ELSE IF p[1] = 128
              THEN Unpack(SubSeq(p, 2, Len(p)))
              ELSE [k \in 1..(257 - p[1]) |-> p[2]] \o Unpack(SubSeq(p, 3, Len(p)))

\* a bit string without its leading zeros: two bit strings are the same number
\* exactly when these are equal
StripZeros(bits) ==
    LET ones == {k \in 1..Len(bits) : bits[k] = 1}
    IN  IF ones = {} THEN <<>>
        ELSE SubSeq(bits, CHOOSE k \in ones : \A n \in ones : k <= n, Len(bits))

C13_ReturnsFreshStatus ==
    /\ retval # <<>> <=> pc = "returned"
    /\ pc = "returned" =>
          /\ Len(wire) >= 2
          /\ wire[Len(wire)] = <<27, 105, 83>>
          /\ wire[Len(wire) - 1] = <<26>>
          /\ Len(completed) = 1
          /\ completed[1].status_type = 1
          /\ wire[completed[1].writes] = <<26>>
          /\ poller \in {"exited", "died"}
          /\ _check_print_status = FALSE
          /\ exc = "none"
          /\ Len(data[1]) = 32
          /\ retval[1].data =
                [printhead_mark |-> data[1][1], model_code |-> data[1][5],
                 error_1 |-> data[1][9], error_2 |-> data[1][10],
                 media_width |-> data[1][11], media_type |-> data[1][12],
                 mode |-> data[1][16], media_length |-> data[1][18],
                 status_type |-> data[1][19], phase_type |-> data[1][20],
                 phase_number_hi |-> data[1][21], phase_number_lo |-> data[1][22],
                 notify_no |-> data[1][23], hardware_settings |-> data[1][27]]

\* print_label has returned the answer to its status request, of status type 0
\* (STATUS_REPLY), while the shared status holds the PRINTING_DONE frame
C13_Witness ==
    /\ pc = "returned"
    /\ retval[1].data.status_type = 0
    /\ status.data.status_type = 1
    /\ copies = 1

\* C13 as stated: the Status print_label returns reports status type 1
\* (PRINTING_DONE)
C13_Original ==
    pc = "returned" => (retval # <<>> /\ retval[1].data.status_type = 1)

(* C14: for every dict from bit positions to booleans, build_byte returns one
   byte whose bit i (0 the least significant, i in 0..7) is set exactly when
   the dict holds true at i; a position the dict does not hold counts as
   false and keys outside 0..7 change nothing.  {6: true, 7: false} gives
   0x40. *)
C14_BuildBytePacksBits ==
    pc = "built" =>
        LET bits == data[1]
            out  == retval[1]
        IN  /\ Len(out) = 1
            /\ out[1] \in 0..255
            /\ \A n \in 0..7 :
                  ((out[1] \div (2 ^ n)) % 2 = 1) <=> (n \in DOMAIN bits /\ bits[n])
            /\ (DOMAIN bits = {6, 7} /\ bits[6] /\ ~bits[7]) => out = <<64>>

\* build_byte has returned 0x40 for {6: true, 7: false}
C14_Witness ==
    /\ pc = "built"
    /\ DOMAIN data[1] = {6, 7}
    /\ data[1][6]
    /\ ~data[1][7]
    /\ retval = << <<64>> >>

(* C15: the caller reads the shared status atomically: whenever it evaluates
   the second conjunct of the page-advance condition, the Status it loads is
   the one it loaded for the first conjunct, so a wait never ends on the
   status type of one polled frame and the phase type of another. *)
C15_AtomicStatusRead ==
    [][(pc = "adv_phase" /\ pc' # pc) => seen[1] = status]_vars

(* C16 (as amended): in each iteration of the status thread, a read of exactly
   32 bytes whose media-width byte is a code of the tape table replaces the
   shared status by the Status decoded from those bytes; a read of 32 bytes
   with any other media-width byte leaves the shared status unchanged and
   ends the thread, with no error raised to the caller; a read of fewer than
   32 bytes (or of none) leaves the shared status unchanged, raises no error
   to the caller, and is followed by the test of the stop flag, which leads
   to another read while the flag is set. *)
FieldsOf(f) ==
    [printhead_mark |-> f[1], model_code |-> f[5], error_1 |-> f[9], error_2 |-> f[10],
     media_width |-> f[11], media_type |-> f[12], mode |-> f[16], media_length |-> f[18],
     status_type |-> f[19], phase_type |-> f[20], phase_number_hi |-> f[21],
     phase_number_lo |-> f[22], notify_no |-> f[23], hardware_settings |-> f[27]]

C16_PollerIteration ==
    /\ [][(poller = "read" /\ poller' # poller) =>
             /\ polled' # <<>>
             /\ pc' = pc
             /\ exc' = exc
             /\ IF Len(polled'[1]) = 32
                THEN IF polled'[1][11] \in {0, 4, 6, 9, 12, 18, 24}
                     THEN /\ status'.data = FieldsOf(polled'[1])
                          /\ poller' = "test"
                     ELSE /\ status' = status
                          /\ poller' = "died"
                ELSE /\ status' = status
                     /\ poller' = "test"]_vars
    /\ [][(poller = "test" /\ poller' # poller) =>
             /\ poller' = (IF _check_print_status THEN "read" ELSE "exited")
             /\ status' = status
             /\ pc' = pc
             /\ exc' = exc]_vars
    /\ [][poller' # poller =>
             poller \in {"unstarted", "read", "test"}]_vars

\* a partial frame was read and dropped: the thread is back at its test with the
\* flag set, the shared status still the phase change polled before
C16_Witness ==
    /\ poller = "test"
    /\ polled = <<[k \in 1..31 |-> 0]>>
    /\ status.data.status_type = 6
    /\ _check_print_status = TRUE
    /\ exc = "none"

\* C16 as stated: every read of exactly 32 bytes replaces the shared status by the
\* Status decoded from those bytes
C16_Original ==
    [][(poller = "read" /\ poller' # poller /\ Len(polled'[1]) = 32) =>
          status'.data = FieldsOf(polled'[1])]_vars

(* C17: for every tape with a geometry and every row print_label slices from
   an image as wide as the tape's print area (ceil(printarea / 8) bytes, the
   dots most significant bit first), the row is encoded (its shifted value
   fits in 16 bytes) and the 128-bit buffer of the raster transfer has its
   dots between the margins: the highest lmargin bits and the lowest rmargin
   bits are zero and the printarea bits in between are the dots of the row,
   in order. *)
C17_PixelsBetweenMargins ==
    img.width = TapeOf(data[1][11])[2] =>
        /\ exc # "OverflowError"
        /\ \A k \in 1..Len(JobWrites) :
              LET tape      == TapeOf(data[1][11])
                  lmargin   == tape[1]
                  printarea == tape[2]
                  rmargin   == tape[3]
                  w         == JobWrites[k]
                  buffer    == Bits(Unpack(SubSeq(w, 4, Len(w))))
                  dots      == SubSeq(Bits(Row(k)), 1, printarea)
              IN  /\ Len(buffer) = 128
                  /\ \A n \in 1..lmargin : buffer[n] = 0
                  /\ \A n \in 1..rmargin : buffer[128 - rmargin + n] = 0
                  /\ SubSeq(buffer, lmargin + 1, lmargin + printarea) = dots

(* C18: every failure during a job aborts it at once.  After a failure of the
   caller (a write or the encoding of a line raised) or of the status thread
   (the decoding of a polled 32-byte frame raised KeyError) nothing more is
   written; when print_label is back at its caller after such a failure the
   status thread has ended, the stop flag is false, and the failure is the
   exception print_label raised: KeyError when the status thread failed. *)
C18_FailuresAbortJob ==
    /\ [][(exc # "none" \/ poller = "died") => wire' = wire]_vars
    /\ []((RawPrintEnded /\ (exc \in {"TransportError", "OverflowError"}
                             \/ poller = "died")) =>
             /\ pc = "raised"
             /\ _check_print_status = FALSE
             /\ poller \in {"unstarted", "exited", "died"}
             /\ poller = "died" => exc = "KeyError")

(* C19: a page-advance wait ends only on a status the status thread assigned
   after the next-page marker of that wait was written: when the caller
   leaves the wait by `break`, the shared status its last load returned is
   not one self.status already held when the marker was written. *)
C19_AdvanceOnFreshStatus ==
    [][(pc = "adv_phase" /\ pc' = "page") => fresh]_vars

\* where the caller stands on its way through print_label: every statement outside
\* the page loop has a number of its own, the page loop has one, and the numbers
\* fall along the control flow, exceptions included
Phase ==
    CASE pc = "idle" -> 20
      [] pc = "gs_write" -> 19
      [] pc = "gs_read" -> 18
      [] pc = "check_ready" -> 17
      [] pc = "render" -> 16
      [] pc = "connect_zeros" -> 15
      [] pc = "connect_init" -> 14
      [] pc = "start" -> 13
      [] pc = "raster" -> 12
      [] pc = "various" -> 11
      [] pc = "advanced" -> 10
      [] pc = "margin" -> 9
      [] pc = "compression" -> 8
      [] pc \in {"page", "line", "eop", "np"} \/ InAdvanceWait -> 7
      [] pc = "eoj" -> 6
      [] InCompletionWait -> 5
      [] pc = "finally" -> 4
      [] pc = "join" -> 3
      [] pc = "ret_write" -> 2
      [] pc = "ret_read" -> 1
      [] pc \in {"returned", "raised"} -> 0

\* pages the loop of line 270 has not entered yet
PagesLeft == Len(documents) - (IF i = None THEN 0 ELSE i + 1)

\* where the caller stands inside one iteration of the page loop
PageStep ==
    CASE pc = "line" -> 4
      [] pc = "eop" -> 3
      [] pc = "np" -> 2
      [] InAdvanceWait -> 1
      [] OTHER -> 0

\* bytes the iterator of the page being sent has not yielded yet
BytesLeft == IF pc = "line" THEN Len(img.bytes) - iters[documents[i + 1]] ELSE 0

\* sleeps left until the wait under way is past its deadline
SleepsLeft ==
    IF InAdvanceWait \/ InCompletionWait THEN Deadline + 1 - elapsed ELSE 0

\* where the caller stands inside one round of a wait: the test, then the sleep
WaitStep ==
    CASE pc \in {"adv_type", "done_type"} -> 2
      [] pc = "adv_phase" -> 1
      [] OTHER -> 0

\* the work the caller has left, most significant first
Work == <<Phase, PagesLeft, PageStep, BytesLeft, SleepsLeft, WaitStep>>

\* the lexicographic order on tuples of naturals of one length
LexLess(a, b) ==
    \E k \in DOMAIN a : a[k] < b[k] /\ \A j \in 1..(k - 1) : a[j] = b[j]

\* steps the status thread takes at most once the stop flag is cleared
PollerWork ==
    CASE poller = "read" -> 2
      [] poller = "test" -> 1
      [] OTHER -> 0

(* C20: every print job terminates, provided each transport call returns and
   time advances (each thread that can take a step takes one; a sleep lasts at
   least a tenth of a second).  Stated on finite runs:
     - every step of the caller lowers Work, a tuple of naturals in
       lexicographic order, so the caller takes finitely many steps, for every
       number of copies and rows and every sequence of reads;
     - until print_label has returned or raised the caller can take a step,
       except inside join(), where the stop flag is cleared and the status
       thread can take one; with the flag cleared every step of the status
       thread lowers PollerWork, and the thread ends at its first test of the
       flag;
     - the caller leaves a page-advance or completion wait by `break`, or by
       the timeout once more than 20 seconds (200 sleeps) have passed. *)
C20_JobTerminates ==
    /\ [][Caller => LexLess(Work', Work)]_vars
    /\ [](\A k \in DOMAIN Work : Work[k] \in Nat)
    /\ [](pc \notin {"idle", "returned", "raised"} =>
             \/ ENABLED Caller
             \/ /\ pc = "join"
                /\ ~_check_print_status
                /\ PollerWork > 0
                /\ ENABLED StatusThread)
    /\ [][(~_check_print_status /\ StatusThread) => PollerWork' < PollerWork]_vars
    /\ [][(poller = "test" /\ ~_check_print_status /\ poller' # poller) =>
             poller' = "exited"]_vars
    /\ [][(InAdvanceWait /\ ~InAdvanceWait') =>
             \/ pc' = "page"
             \/ pc' = "finally" /\ exc' = "PageAdvanceTimeout" /\ elapsed' > 200]_vars
    /\ [][(InCompletionWait /\ ~InCompletionWait') =>
             \/ pc = "done_type" /\ pc' = "finally" /\ exc' = "none"
             \/ pc' = "finally" /\ exc' = "PrintCompletionTimeout" /\ elapsed' > 200]_vars

\* a job of two pages has ended after its completion wait ran into the deadline,
\* the status thread stopped at its test of the flag
C20_Witness ==
    /\ pc = "raised"
    /\ exc = "PrintCompletionTimeout"
    /\ copies = 2
    /\ Len(advanced) = 1
    /\ poller = "exited"

====
